---- MODULE Spec2Model ----
(***************************************************************************)
(* Digest validation and quality scoring (src/src/utils/validation.py).    *)
(*                                                                         *)
(* Python values are tagged records [t, s, n]:                             *)
(*   t = "absent"  the key is not in the mapping                           *)
(*   t = "none"    None                                                    *)
(*   t = "int"     the integer n                                           *)
(*   t = "str"     the string whose characters are the sequence s; a       *)
(*                 timestamp string is the sequence of its lexical pieces  *)
(*                 (date, separator, time of day, zone suffix)             *)
(*   t = "list"    the list of the items s                                 *)
(*   t = "dict"    a mapping with n entries                                *)
(* Time is counted in whole hours since 2026-11-01T00:00:00 local time.    *)
(* An error string is the record of its fixed text (msg) and of the values *)
(* interpolated into it (section, arg, arg2, n1, n2); the text of a caught *)
(* exception, interpolated by the invalid-timestamp message, is left out.  *)
(* A quality score is counted in tenths (10 is the float 1.0).             *)
(*                                                                         *)
(* The state: the validator and the aggregate of the caller (validator,    *)
(* digest_data), a second validator and aggregate (twin, other_data), the  *)
(* wall clock (now), the outcome of the last call (result), the outcomes   *)
(* of the calls made so far (log), the frames of the calls in progress and *)
(* the error lists they build (call, heap), and the run of generate_digest *)
(* from the agent response on (gen).  Where the metrics collector is       *)
(* studied alone, heap is the collector and log the timer calls made on    *)
(* it; where the tool functions are, call holds their invocations.         *)
(***************************************************************************)
EXTENDS Integers, Sequences, FiniteSets, TLC

VARIABLES validator, digest_data, now, result,
          twin, other_data, log, call, heap, gen

vars == <<validator, digest_data, now, result,
          twin, other_data, log, call, heap, gen>>

----------------------------------------------------------------------------
(* Bounds *)

MaxSections == 2

MaxNow == 49

MaxCalls == 3

----------------------------------------------------------------------------
(* Python values *)

Absent == [t |-> "absent", s |-> <<>>, n |-> 0]

PyNone == [t |-> "none", s |-> <<>>, n |-> 0]

PyInt(k) == [t |-> "int", s |-> <<>>, n |-> k]

PyStr(chars) == [t |-> "str", s |-> chars, n |-> 0]

PyList(items) == [t |-> "list", s |-> items, n |-> 0]

PyDict(k) == [t |-> "dict", s |-> <<>>, n |-> k]

\* mapping.get(key, default): the default when the key is absent
get(v, default) == IF v.t = "absent" THEN default ELSE v

\* truth value of a Python value (`not x`, `x or y`)
truthy(v) ==
    CASE v.t = "absent" -> FALSE
      [] v.t = "none" -> FALSE
      [] v.t = "int" -> v.n # 0
      [] v.t = "str" -> Len(v.s) > 0
      [] v.t = "list" -> Len(v.s) > 0
      [] v.t = "dict" -> v.n > 0

\* x or y
py_or(x, y) == IF truthy(x) THEN x ELSE y

----------------------------------------------------------------------------
(* Strings *)

\* the characters in code-point order
Ascii == <<" ","'","(",")",",",".","0","1","2","3","4","5","6","7","8","9",
           "A","B","C","D","E","F","G","H","I","J","K","L","M","N","O","P",
           "Q","R","S","T","U","V","W","X","Y","Z",
           "a","b","c","d","e","f","g","h","i","j","k","l","m","n","o","p",
           "q","r","s","t","u","v","w","x","y","z">>

ord(c) == CHOOSE i \in 1..Len(Ascii) : Ascii[i] = c

\* str.lower(), one character
lower_char(c) ==
    IF \E i \in 17..42 : Ascii[i] = c THEN Ascii[ord(c) + 26] ELSE c

\* str.lower()
lower(chars) == [i \in 1..Len(chars) |-> lower_char(chars[i])]

\* a in b, for strings
contains(a, b) ==
    \E i \in 0..(Len(b) - Len(a)) : SubSeq(b, i + 1, i + Len(a)) = a

\* str.strip()
strip(chars) ==
    LET nonblank == {i \in 1..Len(chars) : chars[i] # " "}
    IN  IF nonblank = {} THEN <<>>
        ELSE SubSeq(chars,
                    CHOOSE i \in nonblank : \A j \in nonblank : i <= j,
                    CHOOSE i \in nonblank : \A j \in nonblank : j <= i)

\* a < b, for strings (code-point order, a proper prefix first)
RECURSIVE str_less(_, _)
str_less(a, b) ==
    IF b = <<>> THEN FALSE
    ELSE IF a = <<>> THEN TRUE
    ELSE IF Head(a) # Head(b) THEN ord(Head(a)) < ord(Head(b))
    ELSE str_less(Tail(a), Tail(b))

\* sorted(set of strings)
RECURSIVE sorted(_)
sorted(S) ==
    IF S = {} THEN <<>>
    ELSE LET least == CHOOSE x \in S : \A y \in S \ {x} : str_less(x, y)
         IN  <<least>> \o sorted(S \ {least})

\* ', '.join(sequence of strings)
RECURSIVE join(_)
join(strs) ==
    IF strs = <<>> THEN <<>>
    ELSE IF Len(strs) = 1 THEN strs[1]
    ELSE strs[1] \o <<",", " ">> \o join(Tail(strs))

\* str(k) for an integer k >= 0
RECURSIVE str_int(_)
str_int(k) ==
    IF k < 10 THEN <<Ascii[7 + k]>>
    ELSE str_int(k \div 10) \o <<Ascii[7 + (k % 10)]>>

\* f"{v}"
format(v) ==
    CASE v.t = "str" -> v.s
      [] v.t = "none" -> <<"N","o","n","e">>
      [] v.t = "int" -> str_int(v.n)
      [] v.t = "list" -> <<"[">> \o v.s \o <<"]">>
      [] OTHER -> <<"{","}">>

----------------------------------------------------------------------------
(* Outcomes and error strings *)

\* a check that returned its list of errors
Ok(errors) == [raised |-> FALSE, exc |-> "", errors |-> errors]

\* a check that was left by an exception nothing catches
Raise(exc) == [raised |-> TRUE, exc |-> exc, errors |-> <<>>]

\* one error string: its fixed text and the values interpolated into it
Err(msg, section, arg, arg2, n1, n2) ==
    [msg |-> msg, section |-> section, arg |-> arg, arg2 |-> arg2,
     n1 |-> n1, n2 |-> n2]

MIN_CONTENT_LENGTH == 20

unknown == PyStr(<<"u","n","k","n","o","w","n">>)

----------------------------------------------------------------------------
(* TRUSTED_SOURCES.get(section_type, []) *)

TRUSTED_SOURCES(section_type) ==
    IF section_type = <<"w","e","a","t","h","e","r">> THEN <<
        <<"O","p","e","n","W","e","a","t","h","e","r"," ","A","P","I">>,
        <<"W","e","a","t","h","e","r",".","c","o","m">>,
        <<"N","a","t","i","o","n","a","l"," ","W","e","a","t","h","e","r"," ","S","e","r","v","i","c","e">>,
        <<"N","O","A","A">>
    >> ELSE
    IF section_type = <<"s","p","o","r","t","s">> THEN <<
        <<"E","S","P","N"," ","A","P","I">>,
        <<"T","h","e"," ","S","p","o","r","t","s"," ","D","B">>,
        <<"O","f","f","i","c","i","a","l"," ","t","e","a","m"," ","w","e","b","s","i","t","e","s">>,
        <<"N","B","A",".","c","o","m">>,
        <<"N","F","L",".","c","o","m">>,
        <<"N","H","L",".","c","o","m">>,
        <<"M","o","c","k"," ","S","p","o","r","t","s"," ","D","a","t","a">>
    >> ELSE
    IF section_type = <<"t","e","c","h">> THEN <<
        <<"T","e","c","h","C","r","u","n","c","h">>,
        <<"T","h","e"," ","V","e","r","g","e">>,
        <<"A","r","s"," ","T","e","c","h","n","i","c","a">>,
        <<"W","i","r","e","d">>,
        <<"M","I","T"," ","T","e","c","h","n","o","l","o","g","y"," ","R","e","v","i","e","w">>,
        <<"V","e","n","t","u","r","e","B","e","a","t">>,
        <<"N","e","w","s"," ","A","P","I">>,
        <<"R","S","S"," ","F","e","e","d","s">>
    >> ELSE
    IF section_type = <<"m","a","r","k","e","t">> THEN <<
        <<"A","l","p","h","a"," ","V","a","n","t","a","g","e">>,
        <<"Y","a","h","o","o"," ","F","i","n","a","n","c","e">>,
        <<"B","l","o","o","m","b","e","r","g">>,
        <<"R","e","u","t","e","r","s">>,
        <<"M","a","r","k","e","t","W","a","t","c","h">>,
        <<"A","l","p","h","a"," ","V","a","n","t","a","g","e"," ","A","P","I">>
    >> ELSE <<>>

----------------------------------------------------------------------------
(* datetime *)

\* the calendar dates a timestamp may carry, as hours since the epoch
DateHours(piece) ==
    CASE piece = "2026-11-01" -> 0
      [] piece = "2026-11-02" -> 24
      [] piece = "2026-11-03" -> 48
      [] piece = "2026-11-04" -> 72
      [] OTHER -> -1

\* the times of day a timestamp may carry, in hours
TimeHours(piece) ==
    CASE piece = "00:00:00" -> 0
      [] piece = "01:00:00" -> 1
      [] piece = "02:00:00" -> 2
      [] piece = "12:00:00" -> 12
      [] piece = "23:00:00" -> 23
      [] OTHER -> -1

\* str.replace("Z", "+00:00")
replace_Z(chars) ==
    [i \in 1..Len(chars) |-> IF chars[i] = "Z" THEN "+00:00" ELSE chars[i]]

\* datetime.fromisoformat(text): date, or date + separator + time, or the
\* latter followed by the offset +00:00 (an aware datetime); anything else
\* is a ValueError.  A bare "Z" suffix is rejected here; interpreters that
\* accept it return an aware datetime, which the caller's subtraction
\* rejects inside the same try block, with the same error string.
fromisoformat(chars) ==
    LET bad == [ok |-> FALSE, aware |-> FALSE, hours |-> 0]
    IN  IF Len(chars) \notin {1, 3, 4} THEN bad
        ELSE IF DateHours(chars[1]) < 0 THEN bad
        ELSE IF Len(chars) = 1
             THEN [ok |-> TRUE, aware |-> FALSE, hours |-> DateHours(chars[1])]
        ELSE IF chars[2] \notin {"T", " "} \/ TimeHours(chars[3]) < 0 THEN bad
        ELSE IF Len(chars) = 3
             THEN [ok |-> TRUE, aware |-> FALSE,
                   hours |-> DateHours(chars[1]) + TimeHours(chars[3])]
        ELSE IF chars[4] # "+00:00" THEN bad
        ELSE [ok |-> TRUE, aware |-> TRUE,
              hours |-> DateHours(chars[1]) + TimeHours(chars[3])]

----------------------------------------------------------------------------
(* DigestValidator *)

\* DigestValidator(max_data_age_hours, min_reliability_score,
\* required_sections); required_sections is [given, names], given = FALSE
\* standing for None
DEFAULT_REQUIRED_SECTIONS ==
    << <<"w","e","a","t","h","e","r">>, <<"s","p","o","r","t","s">>,
       <<"t","e","c","h">>, <<"m","a","r","k","e","t">> >>

DigestValidator(max_data_age_hours, min_reliability_score, required_sections) ==
    [max_data_age_hours |-> max_data_age_hours,
     min_reliability_score |-> min_reliability_score,
     required_sections |->
        IF required_sections.given /\ required_sections.names # <<>>
        THEN required_sections.names
        ELSE DEFAULT_REQUIRED_SECTIONS]

\* _check_completeness: s.get("name", "").lower() for every section, then
\* the required names that are not among them
_check_completeness(self, sections) ==
    LET names == [i \in 1..Len(sections) |-> get(sections[i].name, PyStr(<<>>))]
    IN  IF \E i \in 1..Len(sections) : names[i].t # "str"
        THEN Raise("AttributeError")
        ELSE LET present_sections == {lower(names[i].s) : i \in 1..Len(sections)}
                 required_sections ==
                     {self.required_sections[i] : i \in 1..Len(self.required_sections)}
                 missing == required_sections \ present_sections
             IN  IF missing # {}
                 THEN Ok(<<Err("Missing required sections: {arg}",
                               <<>>, join(sorted(missing)), <<>>, 0, 0)>>)
                 ELSE Ok(<<>>)

\* the body of the loop of _check_data_freshness, for one section
freshness_of(self, section, t_now) ==
    LET section_name == get(section.name, unknown)
        timestamp_str == get(section.timestamp, PyNone)
        invalid == Ok(<<Err("{section}: Invalid timestamp format '{arg}'",
                            format(section_name), format(timestamp_str),
                            <<>>, 0, 0)>>)
    IN  IF ~truthy(timestamp_str)
        THEN Ok(<<Err("{section}: Missing timestamp",
                      format(section_name), <<>>, <<>>, 0, 0)>>)
        \* "T" in timestamp_str: TypeError for an integer
        ELSE IF timestamp_str.t = "int" THEN invalid
        \* .replace of a value that is no string: AttributeError, not caught
        ELSE IF timestamp_str.t # "str" /\ (\E i \in 1..Len(timestamp_str.s) :
                                               timestamp_str.s[i] = "T")
             THEN Raise("AttributeError")
        \* fromisoformat of a value that is no string: TypeError
        ELSE IF timestamp_str.t # "str" THEN invalid
        ELSE LET text == IF \E i \in 1..Len(timestamp_str.s) :
                               timestamp_str.s[i] = "T"
                         THEN replace_Z(timestamp_str.s)
                         ELSE timestamp_str.s
                 timestamp == fromisoformat(text)
                 age == t_now - timestamp.hours
             IN  IF ~timestamp.ok THEN invalid
                 \* naive now - aware timestamp: TypeError
                 ELSE IF timestamp.aware THEN invalid
                 ELSE IF age > self.max_data_age_hours
                      THEN Ok(<<Err("{section}: Data is {n1} hours old (max: {n2})",
                                    format(section_name), <<>>, <<>>,
                                    age, self.max_data_age_hours)>>)
                      ELSE Ok(<<>>)

\* mutant: the source compared without lower-casing it
source_of_case_sensitive(section) ==
    LET section_name == get(section.name, unknown)
        source == get(section.source, PyNone)
    IN  IF ~truthy(source)
        THEN Ok(<<Err("{section}: Missing source attribution",
                      format(section_name), <<>>, <<>>, 0, 0)>>)
        ELSE IF section_name.t # "str" THEN Raise("AttributeError")
        ELSE LET trusted == TRUSTED_SOURCES(lower(section_name.s))
             IN  IF trusted = <<>> THEN Ok(<<>>)
                 ELSE IF source.t # "str" THEN Raise("AttributeError")
                 ELSE IF \E i \in 1..Len(trusted) :
                            contains(lower(trusted[i]), source.s)
                      THEN Ok(<<>>)
                      ELSE Ok(<<Err("{section}: Source '{arg}' not in trusted list. Trusted sources: {arg2}...",
                                    format(section_name), format(source),
                                    join(SubSeq(trusted, 1, 3)), 0, 0)>>)

\* the body of the loop of _check_source_reliability, for one section
source_of(section) ==
    LET section_name == get(section.name, unknown)
        source == get(section.source, PyNone)
    IN  IF ~truthy(source)
        THEN Ok(<<Err("{section}: Missing source attribution",
                      format(section_name), <<>>, <<>>, 0, 0)>>)
        ELSE IF section_name.t # "str" THEN Raise("AttributeError")
        ELSE LET section_type == lower(section_name.s)
                 trusted == TRUSTED_SOURCES(section_type)
             IN  IF trusted = <<>> THEN Ok(<<>>)
                 ELSE IF source.t # "str" THEN Raise("AttributeError")
                 ELSE LET is_trusted ==
                              \E i \in 1..Len(trusted) :
                                  contains(lower(trusted[i]), lower(source.s))
                      IN  IF ~is_trusted
                          THEN Ok(<<Err("{section}: Source '{arg}' not in trusted list. Trusted sources: {arg2}...",
                                        format(section_name), format(source),
                                        join(SubSeq(trusted, 1, 3)), 0, 0)>>)
                          ELSE Ok(<<>>)

\* the body of the loop of _check_content_validity, for one section
content_of(section) ==
    LET section_name == get(section.name, unknown)
        content == py_or(get(section.content, PyNone), get(section.data, PyNone))
    IN  IF section.content.t = "absent" /\ section.data.t = "absent"
        THEN Ok(<<Err("{section}: Missing content or data field",
                      format(section_name), <<>>, <<>>, 0, 0)>>)
        ELSE IF content.t = "str"
             THEN IF Len(strip(content.s)) < MIN_CONTENT_LENGTH
                  THEN Ok(<<Err("{section}: Content too short ({n1} chars, min: {n2})",
                                format(section_name), <<>>, <<>>,
                                Len(content.s), MIN_CONTENT_LENGTH)>>)
                  ELSE Ok(<<>>)
        ELSE IF content.t = "dict"
             THEN IF ~truthy(content)
                  THEN Ok(<<Err("{section}: Empty data object",
                                format(section_name), <<>>, <<>>, 0, 0)>>)
                  ELSE Ok(<<>>)
        ELSE IF content.t = "list"
             THEN IF Len(content.s) = 0
                  THEN Ok(<<Err("{section}: Empty data list",
                                format(section_name), <<>>, <<>>, 0, 0)>>)
                  ELSE Ok(<<>>)
        ELSE Ok(<<>>)

\* for section in sections: the bodies run in order, each appending to
\* errors, until one raises
RECURSIVE _check_data_freshness_from(_, _, _, _, _)
_check_data_freshness_from(self, sections, t_now, i, errors) ==
    IF i > Len(sections) THEN Ok(errors)
    ELSE LET r == freshness_of(self, sections[i], t_now)
         IN  IF r.raised THEN r
             ELSE _check_data_freshness_from(self, sections, t_now, i + 1,
                                             errors \o r.errors)

\* mutant: the return statement indented into the loop body, so that only
\* the first section is looked at
_check_data_freshness_return_in_loop(self, sections, t_now) ==
    _check_data_freshness_from(self,
        IF sections = <<>> THEN <<>> ELSE <<sections[1]>>, t_now, 1, <<>>)

\* mutant: the loop run a second time over the sections, on the list the
\* first run filled
_check_data_freshness_run_twice(self, sections, t_now) ==
    LET first == _check_data_freshness_from(self, sections, t_now, 1, <<>>)
    IN  IF first.raised THEN first
        ELSE _check_data_freshness_from(self, sections, t_now, 1, first.errors)

_check_data_freshness(self, sections, t_now) ==
    _check_data_freshness_from(self, sections, t_now, 1, <<>>)

RECURSIVE _check_source_reliability_from(_, _, _)
_check_source_reliability_from(sections, i, errors) ==
    IF i > Len(sections) THEN Ok(errors)
    ELSE LET r == source_of(sections[i])
         IN  IF r.raised THEN r
             ELSE _check_source_reliability_from(sections, i + 1,
                                                 errors \o r.errors)

\* mutant: the loop over sections[1:], the first section left out
_check_source_reliability_skipping_first(sections) ==
    _check_source_reliability_from(sections, 2, <<>>)

_check_source_reliability(sections) ==
    _check_source_reliability_from(sections, 1, <<>>)

RECURSIVE _check_content_validity_from(_, _, _)
_check_content_validity_from(sections, i, errors) ==
    IF i > Len(sections) THEN Ok(errors)
    ELSE LET r == content_of(sections[i])
         IN  IF r.raised THEN r
             ELSE _check_content_validity_from(sections, i + 1,
                                               errors \o r.errors)

_check_content_validity(sections) ==
    _check_content_validity_from(sections, 1, <<>>)

\* what validate hands back: a raised exception, or (is_valid, errors)
Returned(is_valid, errors) ==
    [raised |-> FALSE, exc |-> "", is_valid |-> is_valid, errors |-> errors]

Raised(exc) ==
    [raised |-> TRUE, exc |-> exc, is_valid |-> FALSE, errors |-> <<>>]

\* mutant: the early return left out, the checks running on
\* digest_data.get("sections", [])
validate_without_early_return(self, digest, t_now) ==
    LET head == IF "sections" \notin digest.keys
                THEN <<Err("Missing 'sections' field in digest data",
                           <<>>, <<>>, <<>>, 0, 0)>>
                ELSE <<>>
        c1 == _check_completeness(self, digest.sections)
        c2 == _check_data_freshness(self, digest.sections, t_now)
        c3 == _check_source_reliability(digest.sections)
        c4 == _check_content_validity(digest.sections)
    IN  IF c1.raised \/ c2.raised \/ c3.raised \/ c4.raised
        THEN Raised("AttributeError")
        ELSE LET errors == head \o c1.errors \o c2.errors \o c3.errors \o c4.errors
             IN  Returned(Len(errors) = 0, errors)

\* mutant: the list of errors created once and kept between the calls (a
\* mutable default argument), so that a call starts from the errors of the
\* calls before it
validate_errors_kept(self, digest, t_now) ==
    LET kept == IF log = <<>> THEN <<>> ELSE log[Len(log)].errors
    IN  IF "sections" \notin digest.keys
        THEN Returned(FALSE,
                      kept \o <<Err("Missing 'sections' field in digest data",
                                    <<>>, <<>>, <<>>, 0, 0)>>)
        ELSE LET sections == digest.sections
                 c1 == _check_completeness(self, sections)
                 c2 == _check_data_freshness(self, sections, t_now)
                 c3 == _check_source_reliability(sections)
                 c4 == _check_content_validity(sections)
             IN  IF c1.raised THEN Raised(c1.exc)
                 ELSE IF c2.raised THEN Raised(c2.exc)
                 ELSE IF c3.raised THEN Raised(c3.exc)
                 ELSE IF c4.raised THEN Raised(c4.exc)
                 ELSE LET errors == kept \o c1.errors \o c2.errors
                                         \o c3.errors \o c4.errors
                      IN  Returned(Len(errors) = 0, errors)

\* mutant: min_reliability_score enforced, an untrusted source being
\* tolerated by a validator whose threshold is 0.5 or less
validate_enforcing_min_reliability(self, digest, t_now) ==
    IF "sections" \notin digest.keys
    THEN Returned(FALSE, <<Err("Missing 'sections' field in digest data",
                               <<>>, <<>>, <<>>, 0, 0)>>)
    ELSE LET sections == digest.sections
             c1 == _check_completeness(self, sections)
             c2 == _check_data_freshness(self, sections, t_now)
             c3 == IF self.min_reliability_score <= 5 THEN Ok(<<>>)
                   ELSE _check_source_reliability(sections)
             c4 == _check_content_validity(sections)
         IN  IF c1.raised THEN Raised(c1.exc)
             ELSE IF c2.raised THEN Raised(c2.exc)
             ELSE IF c3.raised THEN Raised(c3.exc)
             ELSE IF c4.raised THEN Raised(c4.exc)
             ELSE LET errors == c1.errors \o c2.errors \o c3.errors \o c4.errors
                  IN  Returned(Len(errors) = 0, errors)

\* DigestValidator.validate; t_now is the value datetime.now() returns
validate(self, digest, t_now) ==
    IF "sections" \notin digest.keys
    THEN Returned(FALSE, <<Err("Missing 'sections' field in digest data",
                               <<>>, <<>>, <<>>, 0, 0)>>)
    ELSE LET sections == digest.sections
             c1 == _check_completeness(self, sections)
             c2 == _check_data_freshness(self, sections, t_now)
             c3 == _check_source_reliability(sections)
             c4 == _check_content_validity(sections)
         IN  IF c1.raised THEN Raised(c1.exc)
             ELSE IF c2.raised THEN Raised(c2.exc)
             ELSE IF c3.raised THEN Raised(c3.exc)
             ELSE IF c4.raised THEN Raised(c4.exc)
             ELSE LET errors == c1.errors \o c2.errors \o c3.errors \o c4.errors
                  IN  Returned(Len(errors) = 0, errors)

\* max(a, b)
max(a, b) == IF a >= b THEN a ELSE b

max_errors == 10

\* what calculate_quality_score hands back: the exception validate raised,
\* or the score, in tenths; is_valid and errors are the locals validate's
\* result was unpacked into
Scored(v, score) ==
    [raised |-> v.raised, exc |-> v.exc, is_valid |-> v.is_valid,
     errors |-> v.errors, score |-> score]

\* mutant: the penalty without the floor max(0.0, ...)
calculate_quality_score_unclamped(self, digest, t_now) ==
    LET v == validate(self, digest, t_now)
    IN  IF v.raised THEN Scored(v, 0)
        ELSE IF ~v.is_valid THEN Scored(v, max_errors - Len(v.errors))
        ELSE Scored(v, max_errors)

\* mutant: num_errors // max_errors, the integer quotient, as the penalty
calculate_quality_score_integer_quotient(self, digest, t_now) ==
    LET v == validate(self, digest, t_now)
    IN  IF v.raised THEN Scored(v, 0)
        ELSE IF ~v.is_valid
             THEN Scored(v, max(0, max_errors
                                   - max_errors * (Len(v.errors) \div max_errors)))
        ELSE Scored(v, max_errors)

\* mutant: a completeness error weighs twice as much as another error
calculate_quality_score_weighted(self, digest, t_now) ==
    LET v == validate(self, digest, t_now)
        heavy == SelectSeq(v.errors,
                     LAMBDA e : e.msg = "Missing required sections: {arg}")
    IN  IF v.raised THEN Scored(v, 0)
        ELSE IF ~v.is_valid
             THEN Scored(v, max(0, max_errors - Len(v.errors) - Len(heavy)))
        ELSE Scored(v, max_errors)

\* the statements of calculate_quality_score that follow the call of
\* validate, v being what validate handed back: 1.0 - num_errors / max_errors
\* is (max_errors - num_errors) tenths
quality_score_of(v) ==
    IF v.raised THEN Scored(v, 0)
    ELSE IF ~v.is_valid THEN Scored(v, max(0, max_errors - Len(v.errors)))
    ELSE Scored(v, max_errors)

\* DigestValidator.calculate_quality_score
calculate_quality_score(self, digest, t_now) ==
    quality_score_of(validate(self, digest, t_now))

\* what get_validation_summary hands back: the exception one of its calls
\* raised, or the mapping it builds
Summary(raised, exc, is_valid, quality_score, error_count, errors, timestamp) ==
    [raised |-> raised, exc |-> exc, is_valid |-> is_valid,
     quality_score |-> quality_score, error_count |-> error_count,
     errors |-> errors, timestamp |-> timestamp]

\* the statements of get_validation_summary that follow its two calls, v
\* and q being what validate and calculate_quality_score handed back
summary_of(v, q, t3) ==
    IF v.raised THEN Summary(TRUE, v.exc, FALSE, 0, 0, <<>>, 0)
    ELSE IF q.raised THEN Summary(TRUE, q.exc, FALSE, 0, 0, <<>>, 0)
    ELSE Summary(FALSE, "", v.is_valid, q.score, Len(v.errors), v.errors, t3)

\* DigestValidator.get_validation_summary; t1, t2 and t3 are the values the
\* clock has when validate, calculate_quality_score and the summary itself
\* read it
get_validation_summary(self, digest, t1, t2, t3) ==
    summary_of(validate(self, digest, t1),
               calculate_quality_score(self, digest, t2), t3)

----------------------------------------------------------------------------
(* The aggregates handed to the validator *)

Section(name, timestamp, source, content, data) ==
    [name |-> name, timestamp |-> timestamp, source |-> source,
     content |-> content, data |-> data]

weather == PyStr(<<"w","e","a","t","h","e","r">>)

Weather == PyStr(<<"W","e","a","t","h","e","r">>)

market == PyStr(<<"m","a","r","k","e","t">>)

misc == PyStr(<<"m","i","s","c">>)

OpenWeatherAPI == PyStr(<<"O","p","e","n","W","e","a","t","h","e","r"," ","A","P","I">>)

ViaNoaa == PyStr(<<"v","i","a"," ","n","o","a","a">>)

UnknownCorp ==
    PyStr(<<"T","o","t","a","l","l","y"," ","U","n","k","n","o","w","n"," ","C","o","r","p">>)

\* 5 and 20 characters; 20 characters of which 18 are left by strip()
ShortText == PyStr(<<"s","h","o","r","t">>)

LongText ==
    PyStr(<<"S","u","n","n","y"," ","a","n","d"," ","m","i","l","d"," ","t","o","d","a","y">>)

PaddedText ==
    PyStr(<<" ","s","u","n","n","y"," ","a","n","d"," ","m","i","l","d"," ","n","o","w"," ">>)

\* 2026-11-02T00:00:00 is 24 hours old at hour 48 and 25 hours old at 49
AtBoundary == PyStr(<<"2026-11-02", "T", "00:00:00">>)

Stale == PyStr(<<"2026-11-01", " ", "23:00:00">>)

Future == PyStr(<<"2026-11-04">>)

FreshZ == PyStr(<<"2026-11-03", "T", "00:00:00", "Z">>)

StaleZ == PyStr(<<"2026-11-01", "T", "12:00:00", "Z">>)

Garbled == PyStr(<<"yesterday">>)

Base(name, timestamp, source) == Section(name, timestamp, source, Absent, PyDict(1))

Payload(content, data) == Section(weather, AtBoundary, OpenWeatherAPI, content, data)

\* sections whose name, timestamp and source are strings or missing
TextPool ==
    { Base(weather, AtBoundary, OpenWeatherAPI),
      Base(weather, AtBoundary, UnknownCorp),
      Base(weather, AtBoundary, PyStr(<<>>)),
      Base(Weather, AtBoundary, UnknownCorp),
      Base(weather, FreshZ, OpenWeatherAPI),
      Base(weather, StaleZ, OpenWeatherAPI),
      Section(Weather, Future, ViaNoaa, Absent, LongText),
      Section(market, Stale, UnknownCorp, Absent, PyDict(0)),
      Section(misc, Garbled, UnknownCorp, Absent, ShortText),
      Section(Absent, Absent, Absent, Absent, Absent),
      Payload(Absent, PaddedText),
      Payload(Absent, PyList(<<>>)),
      Payload(PyDict(0), Absent),
      Payload(PyStr(<<>>), Absent),
      Payload(PyList(<<>>), Absent),
      Payload(PyDict(0), PyDict(1)),
      Payload(ShortText, PyDict(1)) }

\* sections whose name, timestamp or source is no string
MalformedPool ==
    { Base(PyNone, AtBoundary, OpenWeatherAPI),
      Base(weather, PyList(<<"T">>), OpenWeatherAPI),
      Base(weather, AtBoundary, PyInt(5)),
      Section(misc, PyInt(5), PyInt(5), Absent, PyInt(0)) }

SectionPool == TextPool \cup MalformedPool

\* the sections lists of at most MaxSections sections
SectionLists ==
    UNION { [1..k -> SectionPool] : k \in 0..MaxSections }

\* an aggregate: the keys it has and the value of its 'sections' key
Digest(keys, sections) == [keys |-> keys, sections |-> sections]

Aggregates ==
    { Digest({"date", "generated_at", "sections"}, ss) : ss \in SectionLists }
    \cup
    { Digest(keys, <<>>) : keys \in SUBSET {"date", "generated_at", "raw_response"} }

\* the values of required_sections a validator is constructed with
RequiredChoices ==
    { [given |-> FALSE, names |-> <<>>],
      [given |-> TRUE, names |-> <<>>],
      [given |-> TRUE, names |-> << <<"w","e","a","t","h","e","r">> >>],
      [given |-> TRUE, names |-> << <<"W","e","a","t","h","e","r">> >>] }

----------------------------------------------------------------------------
(* Aggregates of the four canonical sections *)

sports == PyStr(<<"s","p","o","r","t","s">>)

tech == PyStr(<<"t","e","c","h">>)

TheSportsDB == PyStr(<<"T","h","e"," ","S","p","o","r","t","s"," ","D","B">>)

TechCrunch == PyStr(<<"T","e","c","h","C","r","u","n","c","h">>)

AlphaVantageAPI ==
    PyStr(<<"A","l","p","h","a"," ","V","a","n","t","a","g","e"," ","A","P","I">>)

\* 2026-11-03T00:00:00 is 0 hours old at hour 48
Fresh == PyStr(<<"2026-11-03", "T", "00:00:00">>)

\* the source the tool of a section type attributes its data to
ToolSource(name) ==
    CASE lower(name.s) = weather.s -> OpenWeatherAPI
      [] lower(name.s) = sports.s -> TheSportsDB
      [] lower(name.s) = tech.s -> TechCrunch
      [] lower(name.s) = market.s -> AlphaVantageAPI

\* a section as the coordinator is instructed to return it
Good(name) == Section(name, Fresh, ToolSource(name), Absent, PyDict(1))

\* a section that fails the freshness, the source and the content check
Poor(name) == Section(name, Garbled, UnknownCorp, Absent, PyDict(0))

\* a section in the legacy form, its payload under `content`
Legacy(name, content) == Section(name, Fresh, ToolSource(name), content, Absent)

\* a good section with one field replaced
OneFieldOff(name) ==
    { [Good(name) EXCEPT !.timestamp = ts] :
          ts \in {Absent, PyStr(<<>>), Garbled, Stale, StaleZ, FreshZ, AtBoundary} }
    \cup
    { [Good(name) EXCEPT !.source = src] :
          src \in {Absent, PyStr(<<>>), UnknownCorp, ViaNoaa, PyInt(5)} }
    \cup
    { [Good(name) EXCEPT !.data = d] :
          d \in {Absent, ShortText, PaddedText, LongText, PyDict(0), PyList(<<>>)} }
    \cup
    { Legacy(name, c) :
          c \in {LongText, ShortText, PyStr(<<>>), PyDict(0), PyList(<<>>)} }

\* what an aggregate may hold for a section type: nothing, or one section
Slot(name) ==
    IF name = weather
    THEN {<<>>} \cup { <<s>> : s \in {Good(weather), Good(Weather), Poor(weather)}
                                     \cup OneFieldOff(weather) }
    ELSE {<<>>} \cup { <<s>> : s \in {Good(name), Poor(name),
                                      [Good(name) EXCEPT !.timestamp = Stale]} }

CanonicalAggregates ==
    { Digest({"date", "generated_at", "sections"}, w \o s \o t \o m) :
          w \in Slot(weather), s \in Slot(sports), t \in Slot(tech), m \in Slot(market) }
    \cup
    { Digest({"date", "generated_at"}, <<>>) }

----------------------------------------------------------------------------
(* The state machine *)

Now0 == 48

NoResult ==
    [op |-> "none", at |-> 0, raised |-> FALSE, exc |-> "",
     is_valid |-> FALSE, errors |-> <<>>]

\* no caller, no call in progress, generate_digest not running
Idle ==
    /\ log = <<>>
    /\ call = <<>>
    /\ heap = <<>>
    /\ gen = [pc |-> "none"]

Init ==
    /\ validator \in { DigestValidator(24, 8, rs) : rs \in RequiredChoices }
    /\ digest_data \in Aggregates
    /\ now = Now0
    /\ result = NoResult
    /\ twin = validator
    /\ other_data = digest_data
    /\ Idle

\* the wall clock advances
Tick ==
    /\ now < MaxNow
    /\ now' = now + 1
    /\ UNCHANGED <<validator, digest_data, result,
                   twin, other_data, log, call, heap, gen>>

\* validator.validate(digest_data)
Validate ==
    /\ result' = [op |-> "validate", at |-> now] @@ validate(validator, digest_data, now)
    /\ UNCHANGED <<validator, digest_data, now,
                   twin, other_data, log, call, heap, gen>>

Next == Tick \/ Validate

Spec == Init /\ [][Next]_vars

\* validator.calculate_quality_score(digest_data)
CalculateQualityScore ==
    /\ result' = [op |-> "calculate_quality_score", at |-> now]
                 @@ calculate_quality_score(validator, digest_data, now)
    /\ UNCHANGED <<validator, digest_data, now,
                   twin, other_data, log, call, heap, gen>>

\* the default validator and an aggregate of the canonical sections
ScoreInit ==
    /\ validator = DigestValidator(24, 8, [given |-> FALSE, names |-> <<>>])
    /\ digest_data \in CanonicalAggregates
    /\ now = Now0
    /\ result = NoResult
    /\ twin = validator
    /\ other_data = digest_data
    /\ Idle

ScoreNext == Tick \/ Validate \/ CalculateQualityScore

ScoreSpec == ScoreInit /\ [][ScoreNext]_vars

----------------------------------------------------------------------------
(* Calls made one after another, on either validator and either aggregate *)

\* the names a caller has for the validators and for the aggregates
Validators == IF twin = validator THEN {"validator"} ELSE {"validator", "twin"}

Inputs == IF other_data = digest_data THEN {"digest_data"}
          ELSE {"digest_data", "other_data"}

self_of(name) == IF name = "validator" THEN validator ELSE twin

data_of(name) == IF name = "digest_data" THEN digest_data ELSE other_data

\* self.validate(arg)
CallValidate(self, arg) ==
    /\ Len(log) < MaxCalls
    /\ log' = Append(log, [op |-> "validate", self |-> self, arg |-> arg,
                           at |-> now]
                          @@ validate(self_of(self), data_of(arg), now))
    /\ UNCHANGED <<validator, digest_data, now, result,
                   twin, other_data, call, heap, gen>>

\* self.calculate_quality_score(arg)
CallCalculateQualityScore(self, arg) ==
    /\ Len(log) < MaxCalls
    /\ log' = Append(log, [op |-> "calculate_quality_score", self |-> self,
                           arg |-> arg, at |-> now]
                          @@ calculate_quality_score(self_of(self),
                                                     data_of(arg), now))
    /\ UNCHANGED <<validator, digest_data, now, result,
                   twin, other_data, call, heap, gen>>

\* self.get_validation_summary(arg); the clock may advance, to t2, between
\* the times the call reads it
CallGetValidationSummary(self, arg, t2) ==
    /\ Len(log) < MaxCalls
    /\ t2 >= now
    /\ log' = Append(log, [op |-> "get_validation_summary", self |-> self,
                           arg |-> arg, at |-> now, at2 |-> t2]
                          @@ get_validation_summary(self_of(self),
                                                    data_of(arg), now, t2, t2))
    /\ now' = t2
    /\ UNCHANGED <<validator, digest_data, result,
                   twin, other_data, call, heap, gen>>

\* a validator that requires weather and sports
TwoRequired ==
    DigestValidator(24, 8, [given |-> TRUE, names |-> <<weather.s, sports.s>>])

Sectioned(sections) == Digest({"date", "generated_at", "sections"}, sections)

\* aggregates with no error; with no error until the clock reaches hour 49;
\* with one completeness error; with one source error, and a freshness error
\* from hour 49 on; with 4, 10 and 13 errors; with no sections list (one
\* error); with a source that is no string
Sound == Sectioned(<<Good(weather), Good(sports)>>)

Ageing ==
    Sectioned(<<[Good(weather) EXCEPT !.timestamp = AtBoundary], Good(sports)>>)

Partial == Sectioned(<<Good(weather)>>)

Unsourced ==
    Sectioned(<<[Good(weather) EXCEPT !.timestamp = AtBoundary],
                [Good(sports) EXCEPT !.source = UnknownCorp]>>)

Lacking == Sectioned(<<Good(weather), Poor(tech)>>)

Ruined == Sectioned(<<Poor(weather), Poor(tech), Poor(market)>>)

Wrecked ==
    Sectioned(<<Poor(weather), Poor(weather), Poor(tech), Poor(market)>>)

Sectionless == Digest({"date", "generated_at"}, <<>>)

Mistyped ==
    Sectioned(<<Good(sports), [Good(weather) EXCEPT !.source = PyInt(5)]>>)

\* the pairs of aggregates two callers pass
CallPairs ==
    { <<Sound, Unsourced>>, <<Sound, Ageing>>, <<Ageing, Unsourced>>,
      <<Ageing, Ageing>>, <<Unsourced, Sectionless>>, <<Partial, Unsourced>>,
      <<Lacking, Partial>>, <<Lacking, Ruined>>, <<Ruined, Wrecked>>,
      <<Wrecked, Sound>>, <<Mistyped, Unsourced>>, <<Sectionless, Sound>> }

CallsInit ==
    /\ validator = TwoRequired
    /\ twin = validator
    /\ \E pair \in CallPairs : /\ digest_data = pair[1]
                                /\ other_data = pair[2]
    /\ now = Now0
    /\ result = NoResult
    /\ Idle

CallsNext ==
    \/ Tick
    \/ \E self \in Validators, arg \in Inputs : CallValidate(self, arg)
    \/ \E self \in Validators, arg \in Inputs : CallCalculateQualityScore(self, arg)

CallsSpec == CallsInit /\ [][CallsNext]_vars

\* validators that differ in min_reliability_score alone
TwinInit ==
    /\ validator = TwoRequired
    /\ twin = [validator EXCEPT !.min_reliability_score = 5]
    /\ digest_data \in {Unsourced, Mistyped}
    /\ other_data = digest_data
    /\ now = Now0
    /\ result = NoResult
    /\ Idle

TwinNext ==
    \/ Tick
    \/ \E self \in Validators, arg \in Inputs : CallValidate(self, arg)
    \/ \E self \in Validators, arg \in Inputs : CallCalculateQualityScore(self, arg)
    \/ \E self \in Validators, arg \in Inputs, t2 \in Now0..MaxNow :
          CallGetValidationSummary(self, arg, t2)

TwinSpec == TwinInit /\ [][TwinNext]_vars

----------------------------------------------------------------------------
(* Calls that overlap: each caller is a thread inside validate (or inside
   calculate_quality_score, which calls validate first), a step being one
   statement of validate.  heap holds the lists the calls build; call[c] is
   the frame of caller c. *)

Callers == {"first", "second"}

\* mutant: the list of errors kept on the validator (self.errors), all the
\* calls building the same list
errors_key_shared(c) == "first"

\* line 82, errors = []: the list a call builds is allocated by that call
errors_key(c) == c

Frame(pc, op, self, arg, t, out) ==
    [pc |-> pc, op |-> op, self |-> self, arg |-> arg, t |-> t, out |-> out]

NoFrame == Frame("idle", "none", "validator", "digest_data", 0, NoResult)

\* an exception leaves validate, and calculate_quality_score when that is
\* what the caller called
Left(frame, exc) ==
    [frame EXCEPT !.pc = "done",
                  !.out = IF frame.op = "validate" THEN Raised(exc)
                          ELSE quality_score_of(Raised(exc))]

\* errors.extend(check(...)), then the statement after it
Extended(c, check, pc) ==
    IF check.raised
    THEN /\ call' = [call EXCEPT ![c] = Left(call[c], check.exc)]
         /\ heap' = heap
    ELSE /\ call' = [call EXCEPT ![c].pc = pc]
         /\ heap' = [heap EXCEPT ![errors_key(c)] = @ \o check.errors]

\* caller c enters validate, directly or through calculate_quality_score:
\* lines 82 to 89
Enter(c, op, self, arg) ==
    /\ call[c].pc = "idle"
    /\ IF "sections" \notin data_of(arg).keys
       THEN /\ heap' = [heap EXCEPT ![errors_key(c)] =
                           <<Err("Missing 'sections' field in digest data",
                                 <<>>, <<>>, <<>>, 0, 0)>>]
            /\ call' = [call EXCEPT ![c] =
                           Frame("return_false", op, self, arg, now, NoResult)]
       ELSE /\ heap' = [heap EXCEPT ![errors_key(c)] = <<>>]
            /\ call' = [call EXCEPT ![c] =
                           Frame("completeness", op, self, arg, now, NoResult)]
    /\ UNCHANGED <<validator, digest_data, now, result, twin, other_data, log, gen>>

\* line 92
CheckCompleteness(c) ==
    /\ call[c].pc = "completeness"
    /\ Extended(c, _check_completeness(self_of(call[c].self),
                                       data_of(call[c].arg).sections),
                "freshness")
    /\ UNCHANGED <<validator, digest_data, now, result, twin, other_data, log, gen>>

\* line 93; the check reads the clock
CheckDataFreshness(c) ==
    /\ call[c].pc = "freshness"
    /\ LET check == _check_data_freshness(self_of(call[c].self),
                                          data_of(call[c].arg).sections, now)
       IN  IF check.raised
           THEN /\ call' = [call EXCEPT ![c] =
                               Left([call[c] EXCEPT !.t = now], check.exc)]
                /\ heap' = heap
           ELSE /\ call' = [call EXCEPT ![c].pc = "source", ![c].t = now]
                /\ heap' = [heap EXCEPT ![errors_key(c)] = @ \o check.errors]
    /\ UNCHANGED <<validator, digest_data, now, result, twin, other_data, log, gen>>

\* line 94
CheckSourceReliability(c) ==
    /\ call[c].pc = "source"
    /\ Extended(c, _check_source_reliability(data_of(call[c].arg).sections),
                "content")
    /\ UNCHANGED <<validator, digest_data, now, result, twin, other_data, log, gen>>

\* line 95
CheckContentValidity(c) ==
    /\ call[c].pc = "content"
    /\ Extended(c, _check_content_validity(data_of(call[c].arg).sections),
                "return")
    /\ UNCHANGED <<validator, digest_data, now, result, twin, other_data, log, gen>>

\* lines 87 and 97: validate returns; calculate_quality_score goes on with
\* what it returned
Return(c) ==
    /\ call[c].pc \in {"return_false", "return"}
    /\ LET errors == heap[errors_key(c)]
           v == IF call[c].pc = "return_false" THEN Returned(FALSE, errors)
                ELSE Returned(Len(errors) = 0, errors)
       IN  call' = [call EXCEPT ![c].out = v,
                                ![c].pc = IF call[c].op = "validate"
                                          THEN "done" ELSE "score"]
    /\ UNCHANGED <<validator, digest_data, now, result, twin, other_data, log,
                   heap, gen>>

\* lines 223 to 229 of calculate_quality_score
Score(c) ==
    /\ call[c].pc = "score"
    /\ call' = [call EXCEPT ![c].out = quality_score_of(call[c].out),
                            ![c].pc = "done"]
    /\ UNCHANGED <<validator, digest_data, now, result, twin, other_data, log,
                   heap, gen>>

\* both callers hold the same validator; they pass it the same aggregate or
\* two aggregates
ConcurrentPairs ==
    { <<Unsourced, Lacking>>, <<Unsourced, Unsourced>>, <<Ageing, Sectionless>>,
      <<Mistyped, Partial>> }

ConcurrentInit ==
    /\ validator = TwoRequired
    /\ twin = validator
    /\ \E pair \in ConcurrentPairs :
           /\ digest_data = pair[1]
           /\ other_data = pair[2]
    /\ now = Now0
    /\ result = NoResult
    /\ log = <<>>
    /\ gen = [pc |-> "none"]
    /\ call = [c \in Callers |-> NoFrame]
    /\ heap = [c \in Callers |-> <<>>]

ConcurrentNext ==
    \/ Tick
    \/ \E c \in Callers, op \in {"validate", "calculate_quality_score"},
          self \in Validators, arg \in Inputs : Enter(c, op, self, arg)
    \/ \E c \in Callers : CheckCompleteness(c)
    \/ \E c \in Callers : CheckDataFreshness(c)
    \/ \E c \in Callers : CheckSourceReliability(c)
    \/ \E c \in Callers : CheckContentValidity(c)
    \/ \E c \in Callers : Return(c)
    \/ \E c \in Callers : Score(c)

ConcurrentSpec == ConcurrentInit /\ [][ConcurrentNext]_vars

----------------------------------------------------------------------------
(* generate_digest (src/src/generate_digest.py) from the parsed agent
   response on: validation, the quality metrics, the three artifacts, the
   exception handler.  digest_data is the parsed response; gen is the position
   in the function with its locals, the metrics collector, the log and the
   files written.  The model does not look inside a mapping: a card is taken
   to render from any mapping. *)

Collector(metrics, timers) == [metrics |-> metrics, timers |-> timers]

\* MetricsCollector.record
record(collector, name, value) ==
    [collector EXCEPT !.metrics = Append(@, [name |-> name, value |-> value])]

\* MetricsCollector.increment
increment(collector, name) == record(collector, name, 1)

\* MetricsCollector.start_timer
start_timer(collector, name, t_now) ==
    [collector EXCEPT !.timers =
        [k \in DOMAIN @ \cup {name} |-> IF k = name THEN t_now ELSE @[k]]]

\* mutant: the start time read with _timers[name], the timer left in the
\* table
stop_timer_without_pop(collector, name, t_now) ==
    IF name \notin DOMAIN collector.timers
    THEN [raised |-> TRUE, exc |-> "ValueError", collector |-> collector]
    ELSE [raised |-> FALSE, exc |-> "",
          collector |-> record(collector, <<name, "duration_ms">>,
                               t_now - collector.timers[name])]

\* MetricsCollector.stop_timer: ValueError for a timer that is not running
stop_timer(collector, name, t_now) ==
    IF name \notin DOMAIN collector.timers
    THEN [raised |-> TRUE, exc |-> "ValueError", collector |-> collector]
    ELSE [raised |-> FALSE, exc |-> "",
          collector |->
              record([collector EXCEPT !.timers =
                         [k \in DOMAIN @ \ {name} |-> @[k]]],
                     <<name, "duration_ms">>,
                     t_now - collector.timers[name])]

\* next((s for s in sections if s.get('name') == name), {}).get('data', {})
card_data(sections, name) ==
    LET found == SelectSeq(sections, LAMBDA section : section.name = name)
    IN  IF found = <<>> THEN PyDict(0) ELSE get(found[1].data, PyDict(0))

\* _render_weather_card: 'error' in data, then data.get
_render_weather_card(data) ==
    CASE data.t = "dict" -> Ok(<<>>)
      [] data.t \in {"str", "list"} -> Raise("AttributeError")
      [] OTHER -> Raise("TypeError")

\* _render_sports_card, _render_tech_card, _render_market_card: data.get
_render_card(data) ==
    IF data.t = "dict" THEN Ok(<<>>) ELSE Raise("AttributeError")

\* generate_html: the four cards in the order of the template
generate_html(digest) ==
    LET sections == IF "sections" \in digest.keys THEN digest.sections ELSE <<>>
        w == _render_weather_card(card_data(sections, weather))
        s == _render_card(card_data(sections, sports))
        t == _render_card(card_data(sections, tech))
        m == _render_card(card_data(sections, market))
    IN  IF w.raised THEN w
        ELSE IF s.raised THEN s
        ELSE IF t.raised THEN t
        ELSE m

\* the locals of generate_digest at line 252: the total timer running since
\* t_start, nothing validated, nothing written
Parsed(t_start) ==
    [pc |-> "validate",
     metrics |-> start_timer(Collector(<<>>, <<>>), "generation.total", t_start),
     logs |-> <<>>,
     files |-> {},
     is_valid |-> FALSE,
     validation_errors |-> <<>>,
     quality_score |-> 0,
     exc |-> "",
     returned |-> FALSE]

\* an exception raised inside the try block reaches the handler
Caught(exc) == [gen EXCEPT !.pc = "except", !.exc = exc]

\* line 253: is_valid, validation_errors = validator.validate(digest_data)
GenValidate ==
    /\ gen.pc = "validate"
    /\ LET v == validate(validator, digest_data, now)
       IN  gen' = IF v.raised THEN Caught(v.exc)
                  ELSE [gen EXCEPT !.pc = "score",
                                   !.is_valid = v.is_valid,
                                   !.validation_errors = v.errors]
    /\ UNCHANGED <<validator, digest_data, now, result, twin, other_data,
                   log, call, heap>>

\* line 254: quality_score = validator.calculate_quality_score(digest_data)
GenScore ==
    /\ gen.pc = "score"
    /\ LET q == calculate_quality_score(validator, digest_data, now)
       IN  gen' = IF q.raised THEN Caught(q.exc)
                  ELSE [gen EXCEPT !.pc = "record", !.quality_score = q.score]
    /\ UNCHANGED <<validator, digest_data, now, result, twin, other_data,
                   log, call, heap>>

\* lines 256 to 257: the two quality metrics
GenRecord ==
    /\ gen.pc = "record"
    /\ gen' = [gen EXCEPT
                  !.pc = "log",
                  !.metrics = record(record(@, "quality.completeness.score",
                                            gen.quality_score),
                                     "quality.validation.errors",
                                     Len(gen.validation_errors))]
    /\ UNCHANGED <<validator, digest_data, now, result, twin, other_data,
                   log, call, heap>>

\* lines 259 to 265: the warning that itemises the errors, or the info
GenLog ==
    /\ gen.pc = "log"
    /\ gen' = [gen EXCEPT
                  !.pc = "json",
                  !.logs = Append(@, IF ~gen.is_valid
                                     THEN [level |-> "warning",
                                           n |-> Len(gen.validation_errors),
                                           errors |-> gen.validation_errors]
                                     ELSE [level |-> "info", n |-> 0,
                                           errors |-> <<>>])]
    /\ UNCHANGED <<validator, digest_data, now, result, twin, other_data,
                   log, call, heap>>

\* lines 272 to 279: digest.json
GenSaveJson ==
    /\ gen.pc = "json"
    /\ gen' = [gen EXCEPT !.pc = "html", !.files = @ \cup {"digest.json"}]
    /\ UNCHANGED <<validator, digest_data, now, result, twin, other_data,
                   log, call, heap>>

\* lines 281 to 286: index.html is opened after generate_html has returned
GenSaveHtml ==
    /\ gen.pc = "html"
    /\ LET html_content == generate_html(digest_data)
       IN  gen' = IF html_content.raised THEN Caught(html_content.exc)
                  ELSE [gen EXCEPT !.pc = "metrics",
                                   !.files = @ \cup {"index.html"}]
    /\ UNCHANGED <<validator, digest_data, now, result, twin, other_data,
                   log, call, heap>>

\* lines 288 to 294: the total timer, the success metric, metrics.json
GenSaveMetrics ==
    /\ gen.pc = "metrics"
    /\ LET stopped == stop_timer(gen.metrics, "generation.total", now)
       IN  gen' = IF stopped.raised THEN Caught(stopped.exc)
                  ELSE [gen EXCEPT
                           !.pc = "return",
                           !.metrics = record(stopped.collector,
                                              "generation.success", 1),
                           !.files = @ \cup {"metrics.json"}]
    /\ UNCHANGED <<validator, digest_data, now, result, twin, other_data,
                   log, call, heap>>

\* line 307: return digest_data
GenReturn ==
    /\ gen.pc = "return"
    /\ gen' = [gen EXCEPT !.pc = "returned", !.returned = TRUE]
    /\ UNCHANGED <<validator, digest_data, now, result, twin, other_data,
                   log, call, heap>>

\* lines 309 to 313: the handler; stop_timer raising replaces the exception
\* that was caught
GenExcept ==
    /\ gen.pc = "except"
    /\ LET stopped == stop_timer(gen.metrics, "generation.total", now)
       IN  gen' = IF stopped.raised
                  THEN [gen EXCEPT !.pc = "raised", !.exc = stopped.exc]
                  ELSE [gen EXCEPT
                           !.pc = "raised",
                           !.metrics = increment(stopped.collector,
                                                 "generation.error"),
                           !.logs = Append(@, [level |-> "critical", n |-> 0,
                                               errors |-> <<>>])]
    /\ UNCHANGED <<validator, digest_data, now, result, twin, other_data,
                   log, call, heap>>

Canonical(w, s, t, m) == Sectioned(<<w, s, t, m>>)

\* what the agent's response parses to: the four sections as the tools
\* return them; a stale weather section; payloads that are text or a list; a
\* section named Weather; the mapping built when the response is no JSON; a
\* mapping without sections; a source that is no string
ParsedDigests ==
    { Canonical(Good(weather), Good(sports), Good(tech), Good(market)),
      Canonical([Good(weather) EXCEPT !.timestamp = Stale],
                Good(sports), Good(tech), Good(market)),
      Canonical([Good(weather) EXCEPT !.timestamp = AtBoundary],
                Good(sports), Good(tech), Good(market)),
      Canonical([Good(weather) EXCEPT !.data = ShortText],
                Good(sports), Good(tech), Good(market)),
      Canonical([Good(weather) EXCEPT !.data = LongText],
                Good(sports), Good(tech), Good(market)),
      Canonical([Good(Weather) EXCEPT !.data = ShortText],
                Good(sports), Good(tech), Good(market)),
      Canonical(Good(weather), [Good(sports) EXCEPT !.data = PyList(<<>>)],
                Good(tech), Good(market)),
      Canonical(Good(weather), Good(sports), Good(tech),
                [Good(market) EXCEPT !.data = PyDict(0)]),
      Canonical(Good(weather), Good(sports), Legacy(tech, LongText),
                Poor(market)),
      Digest({"date", "generated_at", "sections", "raw_response"}, <<>>),
      Sectionless,
      Mistyped }

GenerateInit ==
    /\ validator = DigestValidator(24, 8, [given |-> FALSE, names |-> <<>>])
    /\ twin = validator
    /\ digest_data \in ParsedDigests
    /\ other_data = digest_data
    /\ now = Now0
    /\ result = NoResult
    /\ log = <<>>
    /\ call = <<>>
    /\ heap = <<>>
    /\ gen = Parsed(Now0)

GenerateNext ==
    \/ Tick
    \/ GenValidate
    \/ GenScore
    \/ GenRecord
    \/ GenLog
    \/ GenSaveJson
    \/ GenSaveHtml
    \/ GenSaveMetrics
    \/ GenReturn
    \/ GenExcept

GenerateSpec == GenerateInit /\ [][GenerateNext]_vars

----------------------------------------------------------------------------
(* generate_digest from the agent's results on: the response text is parsed
   (lines 218 to 243), then the run goes on as above.  A response is the
   record of what its text is (no result at all, JSON, JSON inside a code
   fence, or text that is no JSON) and of the value the JSON denotes. *)

\* digest_data before line 234 binds it
Unbound == Digest({}, <<>>)

Response(text, value) == [text |-> text, value |-> value]

Responses ==
    { Response("json", d) : d \in ParsedDigests }
        \cup { Response("fenced", Sectioned(<<Good(weather), Good(sports),
                                              Good(tech), Good(market)>>)),
               Response("prose", Unbound),
               Response("none", Unbound) }

\* mutant: the fallback built without its `sections` list
fallback_digest_without_sections(response, t_now) ==
    [keys |-> {"date", "generated_at", "raw_response"},
     sections |-> <<>>,
     date |-> t_now \div 24,
     generated_at |-> t_now,
     raw_response |-> response.text]

\* lines 238 to 243: the mapping built when json.loads raises
fallback_digest(response, t_now) ==
    [keys |-> {"date", "generated_at", "sections", "raw_response"},
     sections |-> <<>>,
     date |-> t_now \div 24,
     generated_at |-> t_now,
     raw_response |-> response.text]

\* the locals of generate_digest at line 218
Received(response, t_start) ==
    [Parsed(t_start) EXCEPT !.pc = "parse"] @@ [response |-> response]

\* lines 218 to 245
GenParse ==
    /\ gen.pc = "parse"
    /\ IF gen.response.text = "none"
       THEN /\ gen' = Caught("ValueError")
            /\ digest_data' = digest_data
       ELSE /\ gen' = [gen EXCEPT !.pc = "validate"]
            /\ digest_data' = IF gen.response.text \in {"json", "fenced"}
                              THEN gen.response.value
                              ELSE fallback_digest(gen.response, now)
    /\ UNCHANGED <<validator, now, result, twin, other_data, log, call, heap>>

ResponseInit ==
    /\ validator = DigestValidator(24, 8, [given |-> FALSE, names |-> <<>>])
    /\ twin = validator
    /\ digest_data = Unbound
    /\ other_data = digest_data
    /\ now = Now0
    /\ result = NoResult
    /\ log = <<>>
    /\ call = <<>>
    /\ heap = <<>>
    /\ \E response \in Responses : gen = Received(response, Now0)

ResponseNext == GenParse \/ GenerateNext

ResponseSpec == ResponseInit /\ [][ResponseNext]_vars

----------------------------------------------------------------------------
(* generate_digest with writes that fail: opening or writing one of the three
   artifacts raises OSError. *)

\* line 277, line 284 or line 293 raises: digest.json; index.html, after
\* generate_html has returned; metrics.json, after lines 289 and 290 have
\* stopped the total timer and recorded the success metric
GenWriteFails ==
    /\ gen.pc \in {"json", "html", "metrics"}
    /\ gen.pc = "html" => ~generate_html(digest_data).raised
    /\ LET stopped == stop_timer(gen.metrics, "generation.total", now)
       IN  gen' = IF gen.pc = "metrics" /\ ~stopped.raised
                  THEN [Caught("OSError") EXCEPT
                           !.metrics = record(stopped.collector,
                                              "generation.success", 1)]
                  ELSE Caught("OSError")
    /\ UNCHANGED <<validator, digest_data, now, result, twin, other_data,
                   log, call, heap>>

FailureNext == ResponseNext \/ GenWriteFails

FailureSpec == ResponseInit /\ [][FailureNext]_vars

----------------------------------------------------------------------------
(* The timers of one MetricsCollector (src/src/utils/metrics.py): heap is the
   collector, log the start_timer and stop_timer calls made on it. *)

MaxTimerCalls == 4

\* collector.start_timer(name)
StartTimer(name) ==
    /\ Len(log) < MaxTimerCalls
    /\ heap' = start_timer(heap, name, now)
    /\ log' = Append(log, [op |-> "start_timer", name |-> name, at |-> now,
                           raised |-> FALSE, exc |-> ""])
    /\ UNCHANGED <<validator, digest_data, now, result, twin, other_data,
                   call, gen>>

\* collector.stop_timer(name)
StopTimer(name) ==
    /\ Len(log) < MaxTimerCalls
    /\ LET stopped == stop_timer(heap, name, now)
       IN  /\ heap' = stopped.collector
           /\ log' = Append(log, [op |-> "stop_timer", name |-> name,
                                  at |-> now, raised |-> stopped.raised,
                                  exc |-> stopped.exc])
    /\ UNCHANGED <<validator, digest_data, now, result, twin, other_data,
                   call, gen>>

TimerInit ==
    /\ validator = DigestValidator(24, 8, [given |-> FALSE, names |-> <<>>])
    /\ twin = validator
    /\ digest_data = Unbound
    /\ other_data = digest_data
    /\ now = Now0
    /\ result = NoResult
    /\ log = <<>>
    /\ call = <<>>
    /\ gen = [pc |-> "none"]
    /\ heap = Collector(<<>>, <<>>)

TimerNext ==
    \/ Tick
    \/ \E name \in {"tool.get_weather", "generation.total"} : StartTimer(name)
    \/ \E name \in {"tool.get_weather", "generation.total"} : StopTimer(name)

TimerSpec == TimerInit /\ [][TimerNext]_vars

----------------------------------------------------------------------------
(* The tool functions (src/src/tools): get_weather, get_sports_scores,
   get_tech_news and get_market_data share the module-level collector (heap)
   and each uses one fixed timer name.  call holds, for every caller that
   invoked a tool, the position in the tool function, the exception in
   flight and the record built; a record is the return statement that built
   it (kind), the set of its keys and its 'source' and 'timestamp' values. *)

\* the name passed to metrics.start_timer and metrics.stop_timer
timer_name(tool) ==
    CASE tool = "get_weather" -> "tool.get_weather"
      [] tool = "get_sports_scores" -> "tool.get_sports_scores"
      [] tool = "get_tech_news" -> "tool.get_tech_news"
      [] tool = "get_market_data" -> "tool.get_market_data"

\* datetime.now().isoformat() at the hour t_now
isoformat(t_now) ==
    <<CASE t_now \div 24 = 0 -> "2026-11-01"
        [] t_now \div 24 = 1 -> "2026-11-02"
        [] t_now \div 24 = 2 -> "2026-11-03"
        [] t_now \div 24 = 3 -> "2026-11-04",
      "T",
      CASE t_now % 24 = 0 -> "00:00:00"
        [] t_now % 24 = 1 -> "01:00:00"
        [] t_now % 24 = 2 -> "02:00:00"
        [] t_now % 24 = 12 -> "12:00:00"
        [] t_now % 24 = 23 -> "23:00:00">>

\* the 'source' of the record a tool builds: the fetched record ("real"), the
\* mock record built without an API key ("mock") or after a fetch that got
\* no data ("quota"), the record of the exception handler ("failed")
tool_source(tool, kind) ==
    CASE tool = "get_weather" /\ kind = "real" -> OpenWeatherAPI
      [] tool = "get_market_data" /\ kind = "real" -> AlphaVantageAPI
      [] tool = "get_weather" /\ kind = "failed" -> PyStr(
            <<"O","p","e","n","W","e","a","t","h","e","r"," ","A","P","I",
              " ","(","f","a","i","l","e","d",")">>)
      [] tool = "get_sports_scores" /\ kind = "real" -> PyStr(
            <<"T","h","e"," ","S","p","o","r","t","s"," ","D","B"," ","A",
              "P","I">>)
      [] tool = "get_sports_scores" /\ kind = "mock" -> PyStr(
            <<"M","o","c","k"," ","S","p","o","r","t","s"," ","D","a","t",
              "a"," ","(","a","d","d"," ","S","P","O","R","T","S","_","A",
              "P","I","_","K","E","Y"," ","f","o","r"," ","r","e","a","l",
              " ","d","a","t","a",")">>)
      [] tool = "get_sports_scores" /\ kind = "failed" -> PyStr(
            <<"M","o","c","k"," ","S","p","o","r","t","s"," ","D","a","t",
              "a"," ","(","A","P","I"," ","f","a","i","l","e","d",")">>)
      [] tool = "get_tech_news" /\ kind = "real" -> PyStr(
            <<"R","S","S"," ","F","e","e","d","s"," ","(","T","e","c","h",
              "C","r","u","n","c","h",","," ","T","h","e"," ","V","e","r",
              "g","e",","," ","A","r","s"," ","T","e","c","h","n","i","c",
              "a",","," ","W","i","r","e","d",","," ","M","I","T"," ","T",
              "e","c","h"," ","R","e","v","i","e","w",","," ","V","e","n",
              "t","u","r","e","B","e","a","t",")">>)
      [] tool = "get_tech_news" /\ kind = "failed" -> PyStr(
            <<"M","o","c","k"," ","N","e","w","s"," ","D","a","t","a"," ",
              "(","A","P","I"," ","f","a","i","l","e","d",")">>)
      [] tool = "get_market_data" /\ kind = "mock" -> PyStr(
            <<"M","o","c","k"," ","M","a","r","k","e","t"," ","D","a","t",
              "a"," ","(","a","d","d"," ","F","I","N","A","N","C","E","_",
              "A","P","I","_","K","E","Y"," ","f","o","r"," ","r","e","a",
              "l"," ","d","a","t","a",")">>)
      [] tool = "get_market_data" /\ kind = "quota" -> PyStr(
            <<"M","o","c","k"," ","M","a","r","k","e","t"," ","D","a","t",
              "a"," ","(","A","P","I"," ","q","u","o","t","a"," ","e","x",
              "c","e","e","d","e","d",")">>)
      [] tool = "get_market_data" /\ kind = "failed" -> PyStr(
            <<"M","o","c","k"," ","M","a","r","k","e","t"," ","D","a","t",
              "a"," ","(","A","P","I"," ","f","a","i","l","e","d",")">>)

\* the record a tool returns
Record(tool, kind, t_now) ==
    [kind |-> kind,
     keys |->
        (CASE tool = "get_weather" /\ kind = "failed" ->
                  {"location", "timestamp", "source"}
           [] tool = "get_weather" /\ kind # "failed" ->
                  {"location", "current", "forecast", "timestamp", "source"}
           [] tool = "get_sports_scores" -> {"teams", "timestamp", "source"}
           [] tool = "get_tech_news" -> {"articles", "timestamp", "source"}
           [] tool = "get_market_data" ->
                  {"indexes", "market_summary", "timestamp", "source"})
        \cup (IF kind = "failed" THEN {"error"} ELSE {}),
     source |-> tool_source(tool, kind),
     timestamp |-> PyStr(isoformat(t_now))]

\* an exception raised inside the try block goes to the handler if the
\* except clause matches (requests.exceptions.RequestException in
\* get_weather, Exception in the other three), out of the tool otherwise
Thrown(frame, exc) ==
    [pc |-> IF frame.tool = "get_weather" /\ exc # "RequestException"
            THEN "raised" ELSE "except",
     tool |-> frame.tool, exc |-> exc, out |-> [kind |-> "none"]]

\* the tool is entered: metrics.start_timer(name)
Invoke(c, tool) ==
    /\ c \notin DOMAIN call
    /\ heap' = start_timer(heap, timer_name(tool), now)
    /\ call' = [d \in DOMAIN call \cup {c} |->
                   IF d = c
                   THEN [pc |-> "try", tool |-> tool, exc |-> "",
                         out |-> [kind |-> "none"]]
                   ELSE call[d]]
    /\ UNCHANGED <<validator, digest_data, now, result, twin, other_data,
                   log, gen>>

\* the body of the try block up to the call of stop_timer: it builds a
\* record ("real", "mock", "quota") or an exception leaves it
Fetch(c, outcome) ==
    /\ c \in DOMAIN call
    /\ call[c].pc = "try"
    /\ outcome \in
          CASE call[c].tool = "get_weather" -> {"real", "RequestException", "KeyError"}
            [] call[c].tool = "get_sports_scores" -> {"real", "mock", "Exception"}
            [] call[c].tool = "get_tech_news" -> {"real", "Exception"}
            [] call[c].tool = "get_market_data" -> {"real", "mock", "quota", "Exception"}
    /\ call' = [call EXCEPT ![c] =
                   IF outcome \in {"real", "mock", "quota"}
                   THEN [pc |-> "stop", tool |-> @.tool, exc |-> "",
                         out |-> Record(@.tool, outcome, now)]
                   ELSE Thrown(@, outcome)]
    /\ UNCHANGED <<validator, digest_data, now, result, twin, other_data,
                   log, heap, gen>>

\* the end of the try block: metrics.stop_timer(name), return result
Stop(c) ==
    /\ c \in DOMAIN call
    /\ call[c].pc = "stop"
    /\ LET stopped == stop_timer(heap, timer_name(call[c].tool), now)
       IN  /\ heap' = stopped.collector
           /\ call' = [call EXCEPT ![c] =
                          IF stopped.raised
                          THEN Thrown(@, stopped.exc)
                          ELSE [@ EXCEPT !.pc = "returned"]]
    /\ UNCHANGED <<validator, digest_data, now, result, twin, other_data,
                   log, gen>>

\* the exception handler: metrics.stop_timer(name), whose exception leaves
\* the tool, then metrics.increment("tool.error") and the failure record
Handle(c) ==
    /\ c \in DOMAIN call
    /\ call[c].pc = "except"
    /\ LET stopped == stop_timer(heap, timer_name(call[c].tool), now)
       IN  IF stopped.raised
           THEN /\ heap' = stopped.collector
                /\ call' = [call EXCEPT ![c] =
                               [pc |-> "raised", tool |-> @.tool,
                                exc |-> stopped.exc, out |-> [kind |-> "none"]]]
           ELSE /\ heap' = increment(stopped.collector, "tool.error")
                /\ call' = [call EXCEPT ![c] =
                               [pc |-> "returned", tool |-> @.tool, exc |-> "",
                                out |-> Record(@.tool, "failed", now)]]
    /\ UNCHANGED <<validator, digest_data, now, result, twin, other_data,
                   log, gen>>

ToolNext ==
    \/ Tick
    \/ \E c \in Callers, tool \in {"get_weather", "get_sports_scores",
                                   "get_tech_news", "get_market_data"} :
           Invoke(c, tool)
    \/ \E c \in Callers, outcome \in {"real", "mock", "quota", "RequestException",
                                      "KeyError", "Exception"} : Fetch(c, outcome)
    \/ \E c \in Callers : Stop(c)
    \/ \E c \in Callers : Handle(c)

\* no tool invoked yet, the collector empty
ToolSpec == TimerInit /\ [][ToolNext]_vars

----------------------------------------------------------------------------
(* Properties *)

\* C1: an aggregate without a 'sections' key validates to (False, [the one
\* missing-sections error]), whatever other keys it has; no check adds an
\* error.
C1_MissingSectionsShortCircuit ==
    (result.op = "validate" /\ "sections" \notin digest_data.keys) =>
        /\ ~result.raised
        /\ result.is_valid = FALSE
        /\ result.errors = <<Err("Missing 'sections' field in digest data",
                                 <<>>, <<>>, <<>>, 0, 0)>>

C1_Witness ==
    /\ result.op = "validate"
    /\ "sections" \notin digest_data.keys
    /\ {"date", "raw_response"} \subseteq digest_data.keys

C3_CompletenessOneCombinedError ==
    LET sections == digest_data.sections
        named(R) == \E i \in 1..Len(sections) :
                        /\ sections[i].name.t = "str"
                        /\ lower(sections[i].name.s) = lower(R)
        missing == {R \in {validator.required_sections[k] :
                              k \in 1..Len(validator.required_sections)} :
                       ~named(R)}
        emitted == SelectSeq(result.errors,
                       LAMBDA e : e.msg = "Missing required sections: {arg}")
    IN  (result.op = "validate" /\ "sections" \in digest_data.keys
            /\ ~result.raised) =>
            emitted = IF missing = {} THEN <<>>
                      ELSE <<Err("Missing required sections: {arg}", <<>>,
                                 join(sorted(missing)), <<>>, 0, 0)>>

\* C4: a required name R is not reported missing when the aggregate has a
\* section whose name equals R ignoring case.
C4_CompletenessIgnoresCase ==
    LET sections == digest_data.sections
        reported(R) == \E k \in 1..Len(result.errors) :
                           /\ result.errors[k].msg = "Missing required sections: {arg}"
                           /\ contains(R, result.errors[k].arg)
    IN  (result.op = "validate" /\ "sections" \in digest_data.keys
            /\ ~result.raised) =>
            \A r \in 1..Len(validator.required_sections) :
                (\E i \in 1..Len(sections) :
                    /\ sections[i].name.t = "str"
                    /\ lower(sections[i].name.s)
                           = lower(validator.required_sections[r]))
                => ~reported(validator.required_sections[r])

\* C5: per section the freshness check emits one error when the timestamp is
\* missing or empty, one when it cannot be parsed, one when it parses and is
\* older than max_data_age_hours, and none otherwise (age equal to the
\* maximum, or negative); every section is compared against the same now.
C5_FreshnessPerSection ==
    LET sections == digest_data.sections
        n == Len(sections)
        name(i) == format(get(sections[i].name, unknown))
        expected(i) ==
            LET ts == sections[i].timestamp
                parsed == fromisoformat(replace_Z(ts.s))
            IN  IF ts.t = "absent" \/ ts.s = <<>>
                THEN <<Err("{section}: Missing timestamp",
                           name(i), <<>>, <<>>, 0, 0)>>
                ELSE IF ~parsed.ok
                THEN <<Err("{section}: Invalid timestamp format '{arg}'",
                           name(i), ts.s, <<>>, 0, 0)>>
                ELSE IF result.at - parsed.hours > validator.max_data_age_hours
                THEN <<Err("{section}: Data is {n1} hours old (max: {n2})",
                           name(i), <<>>, <<>>, result.at - parsed.hours,
                           validator.max_data_age_hours)>>
                ELSE <<>>
        all[i \in 0..n] == IF i = 0 THEN <<>> ELSE all[i - 1] \o expected(i)
        emitted == SelectSeq(result.errors, LAMBDA e : e.msg \in
                       {"{section}: Missing timestamp",
                        "{section}: Invalid timestamp format '{arg}'",
                        "{section}: Data is {n1} hours old (max: {n2})"})
    IN  (result.op = "validate" /\ "sections" \in digest_data.keys
            /\ ~result.raised
            /\ \A i \in 1..n : sections[i].timestamp.t \in {"absent", "str"}) =>
            emitted = all[n]

\* C6: a well-formed timestamp with a trailing Z never gets an invalid-format
\* error; it gets the age error when older than max_data_age_hours and no
\* freshness error otherwise.
C6_ZuluTimestampJudgedOnAge ==
    LET sections == digest_data.sections
        zulu(ts) == /\ ts.t = "str"
                    /\ Len(ts.s) = 4
                    /\ ts.s[2] = "T"
                    /\ ts.s[4] = "Z"
                    /\ fromisoformat(replace_Z(ts.s)).ok
    IN  (result.op = "validate" /\ "sections" \in digest_data.keys
            /\ ~result.raised) =>
            \A i \in 1..Len(sections) :
                zulu(sections[i].timestamp) =>
                    LET age == result.at
                               - fromisoformat(replace_Z(sections[i].timestamp.s)).hours
                    IN  /\ ~\E k \in 1..Len(result.errors) :
                              /\ result.errors[k].msg
                                     = "{section}: Invalid timestamp format '{arg}'"
                              /\ result.errors[k].arg = sections[i].timestamp.s
                        /\ age > validator.max_data_age_hours =>
                              \E k \in 1..Len(result.errors) :
                                  /\ result.errors[k].msg
                                         = "{section}: Data is {n1} hours old (max: {n2})"
                                  /\ result.errors[k].n1 = age

C8_ContentEitherKey ==
    LET sections == digest_data.sections
        n == Len(sections)
        expected(i) ==
            LET payload == IF sections[i].content.t # "absent"
                           THEN sections[i].content ELSE sections[i].data
            IN  IF payload.t = "absent" THEN 1
                ELSE IF payload.t = "str" /\ Len(strip(payload.s)) < 20 THEN 1
                ELSE IF payload.t = "dict" /\ payload.n = 0 THEN 1
                ELSE IF payload.t = "list" /\ payload.s = <<>> THEN 1
                ELSE 0
        all[i \in 0..n] == IF i = 0 THEN 0 ELSE all[i - 1] + expected(i)
        emitted == SelectSeq(result.errors, LAMBDA e : e.msg \in
                       {"{section}: Missing content or data field",
                        "{section}: Content too short ({n1} chars, min: {n2})",
                        "{section}: Empty data object",
                        "{section}: Empty data list"})
    IN  (result.op = "validate" /\ "sections" \in digest_data.keys
            /\ ~result.raised
            /\ \A i \in 1..n : sections[i].content.t = "absent"
                               \/ sections[i].data.t = "absent") =>
            Len(emitted) = all[n]

\* C9: in a section with both a `content` and a `data` key the content check
\* judges the value of `content` alone.
C9_ContentTakesPrecedence ==
    LET sections == digest_data.sections
        n == Len(sections)
        expected(i) ==
            LET payload == sections[i].content
            IN  IF payload.t = "str" /\ Len(strip(payload.s)) < 20 THEN 1
                ELSE IF payload.t = "dict" /\ payload.n = 0 THEN 1
                ELSE IF payload.t = "list" /\ payload.s = <<>> THEN 1
                ELSE 0
        all[i \in 0..n] == IF i = 0 THEN 0 ELSE all[i - 1] + expected(i)
        emitted == SelectSeq(result.errors, LAMBDA e : e.msg \in
                       {"{section}: Missing content or data field",
                        "{section}: Content too short ({n1} chars, min: {n2})",
                        "{section}: Empty data object",
                        "{section}: Empty data list"})
    IN  (result.op = "validate" /\ "sections" \in digest_data.keys
            /\ ~result.raised
            /\ \A i \in 1..n : sections[i].content.t # "absent"
                               /\ sections[i].data.t # "absent") =>
            Len(emitted) = all[n]

\* C10: validate on a mapping returns a (bool, errors) pair and never leaves
\* by an exception, whatever the sections hold.
C10_ValidateNeverRaises ==
    result.op = "validate" => ~result.raised

C12_LinearPenaltyWithFloor ==
    LET validated == validate(validator, digest_data, result.at)
        n == Len(validated.errors)
    IN  (result.op = "calculate_quality_score" /\ ~result.raised
            /\ ~validated.raised /\ ~validated.is_valid) =>
            /\ n >= 1
            /\ result.score = (IF 10 - n > 0 THEN 10 - n ELSE 0)
            /\ n >= 10 => result.score = 0
            /\ result.score >= 0

C12_Witness ==
    /\ result.op = "calculate_quality_score"
    /\ ~result.raised
    /\ Len(result.errors) = 10
    /\ result.score = 0

\* C13: of two calculate_quality_score calls made at the same clock value,
\* the one whose aggregate validate finds no more errors in returns no lower
\* a score; with equally many errors the two scores are equal, whichever
\* checks produced the errors.
C13_ScoreMonotoneInErrorCount ==
    \A i, j \in 1..Len(log) :
        (/\ log[i].op = "calculate_quality_score"
         /\ log[j].op = "calculate_quality_score"
         /\ log[i].at = log[j].at
         /\ ~log[i].raised
         /\ ~log[j].raised) =>
            /\ Len(log[i].errors) <= Len(log[j].errors)
                  => log[i].score >= log[j].score
            /\ Len(log[i].errors) = Len(log[j].errors)
                  => log[i].score = log[j].score

C13_Witness ==
    \E i, j \in 1..Len(log) :
        /\ log[i].op = "calculate_quality_score"
        /\ log[j].op = "calculate_quality_score"
        /\ log[i].at = log[j].at
        /\ log[i].arg # log[j].arg
        /\ Len(log[i].errors) = 1
        /\ Len(log[j].errors) = 1
        /\ log[i].errors[1].msg = "Missing required sections: {arg}"
        /\ log[j].errors[1].msg # "Missing required sections: {arg}"
        /\ log[i].score = 9
        /\ log[j].score = 9

C15_CanonicalAggregateValid ==
    LET sections == digest_data.sections
        n == Len(sections)
        canonical == {weather.s, sports.s, tech.s, market.s}
        stamp(s) == fromisoformat(replace_Z(s.timestamp.s))
        within(s) == /\ s.timestamp.t = "str"
                     /\ stamp(s).ok
                     /\ result.at - stamp(s).hours <= validator.max_data_age_hours
        trusted(s) ==
            LET phrases == TRUSTED_SOURCES(lower(s.name.s))
            IN  /\ s.source.t = "str"
                /\ \E k \in 1..Len(phrases) :
                       contains(lower(phrases[k]), lower(s.source.s))
        sound(s) == /\ lower(s.name.s) \in canonical
                    /\ within(s)
                    /\ trusted(s)
                    /\ s.data.t = "dict"
                    /\ s.data.n > 0
    IN  (/\ result.op \in {"validate", "calculate_quality_score"}
         /\ "sections" \in digest_data.keys
         /\ \A name \in canonical :
                \E i \in 1..n : lower(sections[i].name.s) = name
         /\ \A i \in 1..n : sound(sections[i])) =>
            /\ ~result.raised
            /\ result.is_valid
            /\ result.errors = <<>>
            /\ result.op = "calculate_quality_score" => result.score = 10

\* C16: when one section of an otherwise valid aggregate breaks one rule,
\* by its timestamp, by its source or by its payload, the aggregate gets
\* exactly one error, which names that section, is_valid False and the score
\* 0.9; for a timestamp older than max_data_age_hours the error is the age
\* error.
C16_OneViolationOneError ==
    LET sections == digest_data.sections
        n == Len(sections)
        stamp(s) == fromisoformat(replace_Z(s.timestamp.s))
        old(s) == /\ s.timestamp.t = "str"
                  /\ stamp(s).ok
                  /\ result.at - stamp(s).hours > validator.max_data_age_hours
        unstamped(s) == \/ s.timestamp.t = "absent"
                        \/ s.timestamp.t = "str" /\ ~stamp(s).ok
        unsourced(s) ==
            LET phrases == TRUSTED_SOURCES(lower(s.name.s))
            IN  \/ s.source.t = "absent"
                \/ /\ s.source.t = "str"
                   /\ \A k \in 1..Len(phrases) :
                          ~contains(lower(phrases[k]), lower(s.source.s))
        payload(s) == IF s.content.t # "absent" THEN s.content ELSE s.data
        hollow(s) == \/ payload(s).t = "absent"
                     \/ payload(s).t = "str" /\ Len(strip(payload(s).s)) < 20
                     \/ payload(s).t = "dict" /\ payload(s).n = 0
                     \/ payload(s).t = "list" /\ payload(s).s = <<>>
        good(s) == Good(s.name)
        breaks(s) ==
            \/ [s EXCEPT !.timestamp = Fresh] = good(s) /\ (old(s) \/ unstamped(s))
            \/ [s EXCEPT !.source = good(s).source] = good(s) /\ unsourced(s)
            \/ [s EXCEPT !.content = Absent, !.data = good(s).data] = good(s)
                   /\ hollow(s)
    IN  (result.op = "calculate_quality_score"
            /\ "sections" \in digest_data.keys) =>
            \A i \in 1..n :
                (/\ \A j \in 1..n : j # i => sections[j] = good(sections[j])
                 /\ breaks(sections[i])
                 /\ validate(validator,
                             [digest_data EXCEPT
                                 !.sections[i] = good(sections[i])],
                             result.at) = Returned(TRUE, <<>>)) =>
                    /\ ~result.raised
                    /\ ~result.is_valid
                    /\ Len(result.errors) = 1
                    /\ result.errors[1].section = format(sections[i].name)
                    /\ result.score = 9
                    /\ old(sections[i]) =>
                           result.errors[1].msg
                               = "{section}: Data is {n1} hours old (max: {n2})"

\* C17: calculate_quality_score, and the validate call it makes, give the
\* same is_valid, the same errors counted with their multiplicities and the
\* same score for the aggregate and for every aggregate that has its sections
\* in another order, at the same clock value; when one raises, so does the
\* other.
C17_SectionOrderIrrelevant ==
    LET sections == digest_data.sections
        n == Len(sections)
        orders == { q \in [1..n -> 1..n] : \A i, j \in 1..n : i # j => q[i] # q[j] }
        times(errs, e) == Cardinality({k \in 1..Len(errs) : errs[k] = e})
        same(r) ==
            /\ r.raised = result.raised
            /\ r.is_valid = result.is_valid
            /\ Len(r.errors) = Len(result.errors)
            /\ \A k \in 1..Len(r.errors) :
                   times(r.errors, r.errors[k]) = times(result.errors, r.errors[k])
            /\ r.score = result.score
    IN  (result.op = "calculate_quality_score"
            /\ result.at = now
            /\ "sections" \in digest_data.keys) =>
            \A q \in orders :
                same(calculate_quality_score(
                         validator,
                         [digest_data EXCEPT
                             !.sections = [i \in 1..n |-> sections[q[i]]]],
                         result.at))

C17_Witness ==
    /\ result.op = "calculate_quality_score"
    /\ ~result.raised
    /\ Len(digest_data.sections) = 4
    /\ Len(result.errors) >= 5
    /\ \E k \in 1..Len(result.errors) :
          result.errors[k].msg = "{section}: Invalid timestamp format '{arg}'"
    /\ \E k \in 1..Len(result.errors) :
          result.errors[k].msg = "{section}: Data is {n1} hours old (max: {n2})"

\* C18: two validators that differ in min_reliability_score alone return,
\* for the same aggregate and the same clock values, the same validate
\* result, the same quality score and the same summary (its timestamp
\* apart).
C18_MinReliabilityScoreInert ==
    LET e == log[Len(log)]
        other == IF e.self = "validator" THEN twin ELSE validator
        alone == IF e.op = "validate"
                 THEN validate(other, data_of(e.arg), e.at)
                 ELSE IF e.op = "calculate_quality_score"
                 THEN calculate_quality_score(other, data_of(e.arg), e.at)
                 ELSE get_validation_summary(other, data_of(e.arg),
                                             e.at, e.at2, e.at2)
    IN  (/\ log # <<>>
         /\ [validator EXCEPT !.min_reliability_score = 0]
                = [twin EXCEPT !.min_reliability_score = 0]) =>
            \A f \in DOMAIN alone : f # "timestamp" => alone[f] = e[f]

C18_Witness ==
    /\ validator.min_reliability_score # twin.min_reliability_score
    /\ Len(log) = MaxCalls
    /\ \E i, j \in 1..Len(log) :
          /\ log[i].self = "validator"
          /\ log[i].op = "validate"
          /\ log[j].self = "twin"
          /\ log[j].op = "get_validation_summary"
          /\ log[j].at < log[j].at2
          /\ ~log[j].raised
          /\ log[j].error_count = 1
          /\ log[j].quality_score = 8
          /\ \E k \in 1..1 :
                log[j].errors[k].msg = "{section}: Source '{arg}' not in trusted list. Trusted sources: {arg2}..."

\* C19: whatever the interleaving of the calls of several callers on one
\* validator, a call that ends has the outcome validate, or
\* calculate_quality_score, gives for its aggregate alone, at the clock value
\* the call read; and no step changes the configuration of the validator or
\* an aggregate.
C19_ConcurrentCallsIndependent ==
    /\ [](\A c \in DOMAIN call :
              call[c].pc = "done" =>
                  call[c].out =
                      IF call[c].op = "validate"
                      THEN validate(self_of(call[c].self),
                                    data_of(call[c].arg), call[c].t)
                      ELSE calculate_quality_score(self_of(call[c].self),
                                                   data_of(call[c].arg),
                                                   call[c].t))
    /\ [][/\ validator' = validator
          /\ twin' = twin
          /\ digest_data' = digest_data
          /\ other_data' = other_data]_vars

C19_Witness ==
    /\ call # <<>>
    /\ call["first"].pc = "done"
    /\ call["second"].pc = "done"
    /\ call["first"].op = "validate"
    /\ call["second"].op = "calculate_quality_score"
    /\ call["first"].arg # call["second"].arg
    /\ call["first"].t < call["second"].t
    /\ ~call["first"].out.raised
    /\ ~call["second"].out.raised
    /\ Len(call["first"].out.errors) = 1
    /\ Len(call["second"].out.errors) = 4

\* C20: once validate has returned is_valid False for the parsed digest,
\* generate_digest never reaches its exception handler; past the metrics and
\* the log it has recorded the quality score and the number of errors and
\* logged the errors as a warning; and it ends by returning the digest with
\* digest.json and index.html written.
C20_InvalidDigestStillPublished ==
    (gen.pc \notin {"none", "validate"}
        /\ (gen.is_valid \/ gen.validation_errors # <<>>)
        /\ ~gen.is_valid) =>
        /\ gen.pc \notin {"except", "raised"}
        /\ gen.pc \in {"json", "html", "metrics", "return", "returned"} =>
              /\ \E k \in 1..Len(gen.metrics.metrics) :
                     gen.metrics.metrics[k]
                         = [name |-> "quality.completeness.score",
                            value |-> gen.quality_score]
              /\ \E k \in 1..Len(gen.metrics.metrics) :
                     gen.metrics.metrics[k]
                         = [name |-> "quality.validation.errors",
                            value |-> Len(gen.validation_errors)]
              /\ \E k \in 1..Len(gen.logs) :
                     /\ gen.logs[k].level = "warning"
                     /\ gen.logs[k].errors = gen.validation_errors
        /\ gen.pc = "returned" =>
              /\ gen.returned
              /\ {"digest.json", "index.html"} \subseteq gen.files

\* C21: every record get_validation_summary returns has error_count equal
\* to the length of errors, is_valid true exactly when error_count is 0, and
\* quality_score 1.0 when error_count is 0 and max(0.0, 1.0 - error_count/10)
\* otherwise, also when the clock advances between the two validate runs the
\* summary makes.
C21_SummaryConsistent ==
    \A i \in 1..Len(log) :
        (log[i].op = "get_validation_summary" /\ ~log[i].raised) =>
            /\ log[i].error_count = Len(log[i].errors)
            /\ log[i].is_valid = (log[i].error_count = 0)
            /\ log[i].quality_score =
                   IF log[i].error_count = 0 THEN 10
                   ELSE IF 10 - log[i].error_count > 0
                        THEN 10 - log[i].error_count ELSE 0

\* C22: when the response text is no JSON, generate_digest goes on with the
\* fallback digest (date, generated_at, an empty sections list, the raw
\* response) and never reaches its exception handler; validate returns for it
\* the one completeness error that lists the four required sections, the
\* score is 0.9, and the run ends with digest.json and index.html written.
C22_UnparsableResponseFallsBack ==
    (gen.pc \notin {"none", "parse"} /\ gen.response.text = "prose") =>
        /\ digest_data.keys = {"date", "generated_at", "sections", "raw_response"}
        /\ digest_data.sections = <<>>
        /\ digest_data.raw_response = gen.response.text
        /\ gen.pc \notin {"except", "raised"}
        /\ gen.pc \notin {"validate"} =>
              /\ ~gen.is_valid
              /\ gen.validation_errors =
                     <<Err("Missing required sections: {arg}", <<>>,
                           join(<<market.s, sports.s, tech.s, weather.s>>),
                           <<>>, 0, 0)>>
        /\ gen.pc \notin {"validate", "score"} => gen.quality_score = 9
        /\ gen.pc \in {"metrics", "return", "returned"} =>
              {"digest.json", "index.html"} \subseteq gen.files
        /\ gen.pc = "returned" => gen.returned

C22_Witness ==
    /\ gen.pc = "returned"
    /\ gen.response.text = "prose"
    /\ gen.returned
    /\ gen.quality_score = 9
    /\ now > Now0

\* C23: the exception handler of generate_digest, whatever step raised,
\* leaves exactly one generation.error metric in the collector and re-raises
\* the exception it caught.
C23_HandlerCountsAndReraises ==
    [][(gen.pc = "except" /\ gen' # gen) =>
          /\ gen'.pc = "raised"
          /\ gen'.exc = gen.exc
          /\ Len(SelectSeq(gen'.metrics.metrics,
                           LAMBDA m : m.name = "generation.error")) = 1]_vars

\* C24: the completeness error of a validator names only sections of the
\* list the validator was constructed with, the four canonical names standing
\* in when no list was passed; a validator constructed with the empty list
\* reports no completeness error.
C24_CompletenessFollowsConfiguredList ==
    \A rs \in RequiredChoices :
        (/\ validator = DigestValidator(24, 8, rs)
         /\ result.op = "validate"
         /\ ~result.raised) =>
            LET configured ==
                    IF rs.given THEN {rs.names[i] : i \in 1..Len(rs.names)}
                    ELSE {weather.s, sports.s, tech.s, market.s}
            IN  \A k \in 1..Len(result.errors) :
                    result.errors[k].msg = "Missing required sections: {arg}" =>
                        \E missing \in SUBSET configured :
                            /\ missing # {}
                            /\ result.errors[k].arg = join(sorted(missing))

\* C25: for an aggregate with a list of n sections validate returns at most
\* 1 + 3n errors: at most one completeness error and, of each of the
\* freshness, source and content checks, at most as many errors naming a
\* section as there are sections of that name; every error is one of these.
C25_ErrorsBoundedBySections ==
    LET sections == digest_data.sections
        n == Len(sections)
        completeness == {"Missing required sections: {arg}"}
        freshness == {"{section}: Missing timestamp",
                      "{section}: Invalid timestamp format '{arg}'",
                      "{section}: Data is {n1} hours old (max: {n2})"}
        source == {"{section}: Missing source attribution",
                   "{section}: Source '{arg}' not in trusted list. Trusted sources: {arg2}..."}
        content == {"{section}: Missing content or data field",
                    "{section}: Content too short ({n1} chars, min: {n2})",
                    "{section}: Empty data object",
                    "{section}: Empty data list"}
        of(family) == {k \in 1..Len(result.errors) : result.errors[k].msg \in family}
        named(x) == {i \in 1..n : format(get(sections[i].name, unknown)) = x}
        each(family) ==
            \A k \in of(family) :
                Cardinality({j \in of(family) :
                                result.errors[j].section = result.errors[k].section})
                    <= Cardinality(named(result.errors[k].section))
    IN  (result.op = "validate" /\ "sections" \in digest_data.keys
            /\ ~result.raised) =>
            /\ Len(result.errors) <= 1 + 3 * n
            /\ Cardinality(of(completeness)) <= 1
            /\ each(freshness)
            /\ each(source)
            /\ each(content)
            /\ \A k \in 1..Len(result.errors) :
                   result.errors[k].msg
                       \in completeness \cup freshness \cup source \cup content

C25_Witness ==
    /\ result.op = "validate"
    /\ ~result.raised
    /\ Len(digest_data.sections) = 2
    /\ digest_data.sections[1].name = digest_data.sections[2].name
    /\ Len(result.errors) = 7

\* C26: the character count a 'Content too short' error reports is below
\* the minimum of 20 it is reported against.
C26_ReportedLengthBelowMinimum ==
    (result.op = "validate" /\ ~result.raised) =>
        \A k \in 1..Len(result.errors) :
            result.errors[k].msg
                = "{section}: Content too short ({n1} chars, min: {n2})" =>
                    /\ result.errors[k].n2 = 20
                    /\ result.errors[k].n1 < 20

\* C27: after every sequence of start_timer and stop_timer calls, a
\* stop_timer(name) has succeeded exactly when a start_timer(name) was made
\* since the last successful stop_timer(name), and has raised ValueError
\* otherwise; the timer table holds the names started and not stopped since,
\* each with the time of its latest start; the metrics are one duration per
\* successful stop, measured from that latest start, and nothing else.
C27_TimersStartedOnceStoppedOnce ==
    LET n == Len(log)
        stops(i) == log[i].op = "stop_timer"
        timers[i \in 0..n] ==
            IF i = 0 THEN <<>>
            ELSE LET before == timers[i - 1]
                     name == log[i].name
                 IN  IF stops(i)
                     THEN [k \in DOMAIN before \ {name} |-> before[k]]
                     ELSE [k \in DOMAIN before \cup {name} |->
                              IF k = name THEN log[i].at ELSE before[k]]
        metrics[i \in 0..n] ==
            IF i = 0 THEN <<>>
            ELSE IF stops(i) /\ log[i].name \in DOMAIN timers[i - 1]
                 THEN Append(metrics[i - 1],
                             [name |-> <<log[i].name, "duration_ms">>,
                              value |-> log[i].at - timers[i - 1][log[i].name]])
                 ELSE metrics[i - 1]
    IN  /\ \A i \in 1..n :
               /\ log[i].raised = (stops(i) /\ log[i].name \notin DOMAIN timers[i - 1])
               /\ log[i].exc = IF log[i].raised THEN "ValueError" ELSE ""
        /\ n > 0 => /\ heap.timers = timers[n]
                    /\ heap.metrics = metrics[n]

C27_Witness ==
    /\ Len(log) = 4
    /\ \A i \in 1..4 : log[i].name = "generation.total"
    /\ log[1].op = "start_timer"
    /\ log[2].op = "start_timer"
    /\ log[3].op = "stop_timer"
    /\ log[4].op = "stop_timer"
    /\ log[1].at < log[2].at
    /\ ~log[3].raised
    /\ log[4].raised
    /\ Len(heap.metrics) = 1
    /\ heap.metrics[1].value = log[3].at - log[2].at

\* C28: when invocations of get_sports_scores, get_tech_news or
\* get_market_data overlap on the shared collector, none of them raises out
\* of the tool, and every invocation that has returned has recorded its own
\* duration metric under the tool's timer name.
C28_OverlappingInvocationsReturn ==
    \A tool \in {"get_sports_scores", "get_tech_news", "get_market_data"} :
        LET invoked == {c \in DOMAIN call : call[c].tool = tool}
            returned == {c \in invoked : call[c].pc = "returned"}
            durations ==
                {i \in 1..Len(heap.metrics) :
                    <<timer_name(tool), "duration_ms">> = heap.metrics[i].name}
        IN  /\ \A c \in invoked : call[c].pc # "raised"
            /\ Cardinality(durations) = Cardinality(returned)

\* C29: an invocation of get_weather that no other invocation of get_weather
\* overlaps ends by returning a record, a failure record carrying 'error',
\* 'location', 'timestamp' and 'source', and once it has ended no
\* tool.get_weather timer is running: no failure inside the fetch leaves
\* the tool as an exception.
C29_GetWeatherAlwaysReturns ==
    \A c \in DOMAIN call :
        (/\ call[c].tool = "get_weather"
         /\ \A d \in DOMAIN call \ {c} : call[d].tool # "get_weather")
        => /\ call[c].pc # "raised"
           /\ call[c].pc = "returned" =>
                  /\ "tool.get_weather" \notin DOMAIN heap.timers
                  /\ call[c].out.kind = "failed" =>
                         {"error", "location", "timestamp", "source"}
                             \subseteq call[c].out.keys

\* C30: the section assembled from a mock or failure record a tool returned
\* (named after the tool's section type, with the record's source and
\* timestamp, the record as its data) gets at least one validation error
\* from a validator that requires this section alone.
C30_MockDataNeverValid ==
    \A c \in DOMAIN call :
        (call[c].pc = "returned" /\ call[c].out.kind \in {"mock", "quota", "failed"})
        => LET name == CASE call[c].tool = "get_weather" -> weather
                         [] call[c].tool = "get_sports_scores" -> sports
                         [] call[c].tool = "get_tech_news" -> tech
                         [] call[c].tool = "get_market_data" -> market
               section == Section(name, call[c].out.timestamp, call[c].out.source,
                                  Absent, PyDict(Cardinality(call[c].out.keys)))
               self == DigestValidator(24, 8, [given |-> TRUE, names |-> <<name.s>>])
               v == validate(self,
                             Digest({"date", "generated_at", "sections"}, <<section>>),
                             now)
           IN  ~v.raised /\ ~v.is_valid /\ Len(v.errors) >= 1

====
